---- MODULE Spec2Model ----
(***************************************************************************)
(* Model of the GeneratePDFs node SDK: the client (GeneratePDFs.js) and    *)
(* the document handle (Pdf.js).                                           *)
(*                                                                         *)
(* JavaScript values are records tagged by t:                              *)
(*   "undef", "null", "nan", "num" (a rational n/d), "str" (the sequence   *)
(*   s of the string's lexical pieces, "" being <<>>), "obj" (f: a record  *)
(*   of its own properties), "arr" (a: the sequence of its elements).      *)
(* A string is kept as the sequence of its pieces so that the code's       *)
(* string operations (split('.'), URL parsing, template interpolation)     *)
(* are computed, not looked up.                                            *)
(***************************************************************************)
EXTENDS Integers, Sequences, FiniteSets, TLC

VARIABLES client, call

vars == <<client, call>>

(***************************************************************************)
(* Bounds.                                                                 *)
(***************************************************************************)
MaxImages == 2

MaxUrlLen == 3

MaxId == 2

(***************************************************************************)
(* JavaScript values.                                                      *)
(***************************************************************************)
Undef == [t |-> "undef"]

Null == [t |-> "null"]

NaN == [t |-> "nan"]

Num(n, d) == [t |-> "num", n |-> n, d |-> d]

Whole(n) == Num(n, 1)

Str(s) == [t |-> "str", s |-> s]

Obj(f) == [t |-> "obj", f |-> f]

Arr(a) == [t |-> "arr", a |-> a]

\* A function object (what a lookup of an inherited method name yields).
Fn == [t |-> "fn"]

\* ToBoolean: the falsy values are undefined, null, NaN, 0 and "".
Truthy(v) ==
  CASE v.t = "undef" -> FALSE
    [] v.t = "null" -> FALSE
    [] v.t = "nan" -> FALSE
    [] v.t = "num" -> v.n # 0
    [] v.t = "str" -> v.s # <<>>
    [] OTHER -> TRUE

\* v is null or undefined (the operands that ?? replaces, !== null && !== undefined).
Nullish(v) == v.t \in {"undef", "null"}

\* v.k for a value that is not null/undefined: an own property or undefined.
Get(v, k) ==
  IF v.t = "obj" /\ k \in DOMAIN v.f THEN v.f[k] ELSE Undef

\* The record f restricted to the keys ks.
Restrict(f, ks) == [k \in ks |-> f[k]]

\* String(v) / template interpolation `${v}` for the values the client interpolates.
ToStr(v) ==
  CASE v.t = "str" -> v.s
    [] v.t = "undef" -> <<"undefined">>
    [] v.t = "null" -> <<"null">>
    [] v.t = "nan" -> <<"NaN">>
    [] v.t = "num" ->
         IF v.n % v.d = 0 THEN <<ToString(v.n \div v.d)>>
         ELSE IF v.n < 0 THEN <<"-", ToString((-v.n) \div v.d), ".", "5">>
         ELSE <<ToString(v.n \div v.d), ".", "5">>
    [] v.t = "fn" -> <<"function">>
    [] OTHER -> <<"[object Object]">>

(***************************************************************************)
(* The local file system seen by existsSync / readFileSync.                *)
(***************************************************************************)
HtmlFile == <<"index", ".", "html">>

CssFile == <<"style", ".", "css">>

LogoFile == <<"logo", ".", "PNG">>

RawFile == <<"raw">>

AssetsDir == <<"assets">>

LockedFile == <<"locked", ".", "css">>

GoneFile == <<"gone", ".", "html">>

\* Image files, one for each extension of the MIME table, one with another
\* extension, one whose extension is the name of an inherited property, and
\* one without extension whose name is an extension of the table.
PhotoFile == <<"photo", ".", "JPG">>

PicFile == <<"pic", ".", "Jpeg">>

AnimFile == <<"anim", ".", "gif">>

WebpFile == <<"img", ".", "webp">>

IconFile == <<"icon", ".", "svg">>

BinFile == <<"data", ".", "bin">>

CtorFile == <<"x", ".", "constructor">>

BareFile == <<"png">>

\* kind: a regular readable file, a directory, or a file without read permission.
Files ==
  (HtmlFile :> [kind |-> "file", bytes |-> <<60, 104>>]) @@
  (CssFile :> [kind |-> "file", bytes |-> <<97>>]) @@
  (LogoFile :> [kind |-> "file", bytes |-> <<137, 80, 78>>]) @@
  (RawFile :> [kind |-> "file", bytes |-> <<>>]) @@
  (AssetsDir :> [kind |-> "dir", bytes |-> <<>>]) @@
  (LockedFile :> [kind |-> "noperm", bytes |-> <<0>>]) @@
  (PhotoFile :> [kind |-> "file", bytes |-> <<255, 216>>]) @@
  (PicFile :> [kind |-> "file", bytes |-> <<255, 216>>]) @@
  (AnimFile :> [kind |-> "file", bytes |-> <<71>>]) @@
  (WebpFile :> [kind |-> "file", bytes |-> <<82>>]) @@
  (IconFile :> [kind |-> "file", bytes |-> <<60>>]) @@
  (BinFile :> [kind |-> "file", bytes |-> <<1>>]) @@
  (CtorFile :> [kind |-> "file", bytes |-> <<2>>]) @@
  (BareFile :> [kind |-> "file", bytes |-> <<137>>])

\* fs.existsSync: true iff the path is a string naming an existing entry.
existsSync(p) == p.t = "str" /\ p.s \in DOMAIN Files

\* fs.readFileSync on a string path: the bytes, or the system error thrown.
readFileSync(p) ==
  CASE ~existsSync(p) -> [ok |-> FALSE, bytes |-> <<>>, code |-> "ENOENT"]
    [] Files[p.s].kind = "file" -> [ok |-> TRUE, bytes |-> Files[p.s].bytes, code |-> ""]
    [] Files[p.s].kind = "dir" -> [ok |-> FALSE, bytes |-> <<>>, code |-> "EISDIR"]
    [] OTHER -> [ok |-> FALSE, bytes |-> <<>>, code |-> "EACCES"]

(***************************************************************************)
(* Buffer.toString('base64').                                              *)
(***************************************************************************)
B64Chars ==
  <<"A","B","C","D","E","F","G","H","I","J","K","L","M","N","O","P",
    "Q","R","S","T","U","V","W","X","Y","Z","a","b","c","d","e","f",
    "g","h","i","j","k","l","m","n","o","p","q","r","s","t","u","v",
    "w","x","y","z","0","1","2","3","4","5","6","7","8","9","+","/">>

B64(i) == B64Chars[i + 1]

RECURSIVE Base64(_)
Base64(bytes) ==
  CASE Len(bytes) = 0 -> <<>>
    [] Len(bytes) = 1 ->
         <<B64(bytes[1] \div 4), B64((bytes[1] % 4) * 16), "=", "=">>
    [] Len(bytes) = 2 ->
         <<B64(bytes[1] \div 4),
           B64((bytes[1] % 4) * 16 + bytes[2] \div 16),
           B64((bytes[2] % 16) * 4), "=">>
    [] OTHER ->
         <<B64(bytes[1] \div 4),
           B64((bytes[1] % 4) * 16 + bytes[2] \div 16),
           B64((bytes[2] % 16) * 4 + bytes[3] \div 64),
           B64(bytes[3] % 64)>> \o Base64(SubSeq(bytes, 4, Len(bytes)))

(***************************************************************************)
(* Errors and results.                                                     *)
(***************************************************************************)
\* An Error object: its class name, the fixed text of its message and the
\* interpolated values, in order.
Err(name, text, args) == [name |-> name, text |-> text, args |-> args]

InvalidArgumentException(text, args) == Err("InvalidArgumentException", text, args)

\* The system error readFileSync throws (a plain Error carrying a code).
SystemError(code, p) == Err("Error", code, <<p>>)

NoErr == Err("", "", <<>>)

NoPdf == [id |-> Undef]

NoResult == [kind |-> "none", err |-> NoErr, pdf |-> NoPdf, value |-> Undef]

Rejected(e) == [kind |-> "error", err |-> e, pdf |-> NoPdf, value |-> Undef]

Resolved(pdf) == [kind |-> "pdf", err |-> NoErr, pdf |-> pdf, value |-> Undef]

\* A result that is neither an exception nor a handle: a boolean or a Buffer.
Returned(v) == [kind |-> "value", err |-> NoErr, pdf |-> NoPdf, value |-> v]

Bool(b) == [t |-> "bool", b |-> b]

Buffer(bytes) == [t |-> "buffer", bytes |-> bytes]

RuntimeException(text, args) == Err("RuntimeException", text, args)

(***************************************************************************)
(* JSON.stringify, kept as the value the text denotes: properties whose    *)
(* value is undefined or a function are dropped, such array elements and   *)
(* NaN become null.                                                        *)
(***************************************************************************)
RECURSIVE JsonStringify(_)
JsonStringify(v) ==
  CASE v.t = "obj" ->
         Obj([k \in {j \in DOMAIN v.f : v.f[j].t \notin {"undef", "fn"}} |->
                JsonStringify(v.f[k])])
    [] v.t = "arr" ->
         Arr([i \in 1..Len(v.a) |->
                IF v.a[i].t \in {"undef", "fn"} THEN Null ELSE JsonStringify(v.a[i])])
    [] v.t = "nan" -> Null
    [] OTHER -> v

(***************************************************************************)
(* GeneratePDFs: the client.                                               *)
(***************************************************************************)
BASE_URL == <<"https", ":", "/", "/", "api", ".", "generatepdfs", ".", "com">>

\* constructor / connect: the token is stored verbatim, the base URL is fixed.
connect(apiToken) == [apiToken |-> apiToken, baseUrl |-> BASE_URL]

\* String.prototype.toLowerCase on one piece.
LowerPiece(p) ==
  CASE p = "PNG" -> "png"
    [] p = "JPG" -> "jpg"
    [] p = "Jpeg" -> "jpeg"
    [] p = "Completed" -> "completed"
    [] OTHER -> p

toLowerCase(s) == [i \in 1..Len(s) |-> LowerPiece(s[i])]

\* filePath.split('.').pop(): the pieces after the last '.', the whole
\* string when it has none.
RECURSIVE LastSegment(_)
LastSegment(s) ==
  IF \E i \in 1..Len(s) : s[i] = "."
  THEN LastSegment(SubSeq(s, (CHOOSE i \in 1..Len(s) : s[i] = ".") + 1, Len(s)))
  ELSE s

mimeTypes ==
  (<<"jpg">> :> Str(<<"image/jpeg">>)) @@
  (<<"jpeg">> :> Str(<<"image/jpeg">>)) @@
  (<<"png">> :> Str(<<"image/png">>)) @@
  (<<"gif">> :> Str(<<"image/gif">>)) @@
  (<<"webp">> :> Str(<<"image/webp">>)) @@
  (<<"svg">> :> Str(<<"image/svg+xml">>))

\* Property names every object literal inherits from Object.prototype.
ObjectPrototypeKeys ==
  {<<"constructor">>, <<"toString">>, <<"valueOf">>, <<"hasOwnProperty">>}

\* #detectMimeType: mimeTypes[extension] ?? 'application/octet-stream'.
detectMimeType(filePath) ==
  LET extension == toLowerCase(LastSegment(filePath)) IN
  IF extension \in DOMAIN mimeTypes THEN mimeTypes[extension]
  ELSE IF extension \in ObjectPrototypeKeys THEN Fn
  ELSE Str(<<"application/octet-stream">>)

\* #processImages: the loop from entry i on, with the entries accepted so far.
\* ok = FALSE when readFileSync throws, which aborts the loop.
RECURSIVE processImagesFrom(_, _, _)
processImagesFrom(images, i, processed) ==
  IF i > Len(images)
  THEN [ok |-> TRUE, value |-> Arr(processed), err |-> NoErr]
  ELSE
    LET image == images[i]
        path == Get(image, "path")
        name == Get(image, "name")
    IN
    IF ~Truthy(path) \/ ~Truthy(name)
    THEN processImagesFrom(images, i + 1, processed)
    ELSE IF ~existsSync(path)
    THEN processImagesFrom(images, i + 1, processed)
    ELSE
      LET content == readFileSync(path) IN
      IF ~content.ok
      THEN [ok |-> FALSE, value |-> Arr(<<>>), err |-> SystemError(content.code, path)]
      ELSE
        LET mimeType == IF Nullish(Get(image, "mimeType"))
                        THEN detectMimeType(path.s)
                        ELSE Get(image, "mimeType")
        IN processImagesFrom(images, i + 1,
             Append(processed, Obj([name |-> name,
                                    content |-> Str(Base64(content.bytes)),
                                    mime_type |-> mimeType])))

processImages(images) == processImagesFrom(images, 1, <<>>)

\* The request #makeRequest hands to fetch.
makeRequest(endpoint, data) ==
  [method |-> "POST",
   url |-> client.baseUrl \o endpoint,
   headers |-> [Authorization |-> <<"Bearer", " ">> \o ToStr(client.apiToken),
                ContentType |-> "application/json"],
   body |-> JsonStringify(data)]

\* Mutant: the URL is kept in a field of the client that the invocations in
\* flight share, so a request started while another is awaited goes to the
\* other's URL.
makeGetRequest_shared(endpoint) ==
  [method |-> "GET",
   url |-> IF \E d \in DOMAIN call : call[d].pc = "awaiting"
           THEN call[CHOOSE d \in DOMAIN call : call[d].pc = "awaiting"].sent[1].url
           ELSE client.baseUrl \o endpoint,
   headers |-> [Authorization |-> <<"Bearer", " ">> \o ToStr(client.apiToken)],
   body |-> Undef]

\* The request #makeGetRequest hands to fetch.
makeGetRequest(endpoint) ==
  [method |-> "GET",
   url |-> client.baseUrl \o endpoint,
   headers |-> [Authorization |-> <<"Bearer", " ">> \o ToStr(client.apiToken)],
   body |-> Undef]

GenerateEndpoint == <<"/", "pdfs", "/", "generate">>

\* Mutant: the existence check of the HTML path is left out.
htmlNotFound_skipped(htmlPath) == FALSE

\* The guard `!existsSync(htmlPath)` of generateFromHtml.
htmlNotFound(htmlPath) == ~existsSync(htmlPath)

\* The guard `cssPath !== null && cssPath !== undefined`.
cssProvided(cssPath) == ~Nullish(cssPath)

\* Mutant: the existence check of the CSS path is left out.
cssNotFound_skipped(cssPath) == FALSE

\* The guard `!existsSync(cssPath)`.
cssNotFound(cssPath) == ~existsSync(cssPath)

\* Mutant: the images field is attached whatever the list.
imagesSupplied_always(images) == TRUE

\* The guard `images.length > 0`.
imagesSupplied(images) == Len(images.a) > 0

\* generateFromHtml up to its first await: either an exception (ok = FALSE)
\* or the payload that is posted.
generateFromHtmlData(htmlPath, cssPath, images) ==
  IF htmlNotFound(htmlPath)
  THEN [ok |-> FALSE, data |-> Undef,
        err |-> InvalidArgumentException("HTML file not found or not readable: ", <<htmlPath>>)]
  ELSE
    LET htmlContent == readFileSync(htmlPath) IN
    IF ~htmlContent.ok
    THEN [ok |-> FALSE, data |-> Undef, err |-> SystemError(htmlContent.code, htmlPath)]
    ELSE
      LET withCss == cssProvided(cssPath)
          cssContent == readFileSync(cssPath)
          withImages == imagesSupplied(images)
          processed == IF withImages THEN processImages(images.a)
                       ELSE [ok |-> TRUE, value |-> Undef, err |-> NoErr]
          all == [html |-> Str(Base64(htmlContent.bytes)),
                  css |-> Str(Base64(cssContent.bytes)),
                  images |-> processed.value]
          keys == {"html"} \cup (IF withCss THEN {"css"} ELSE {})
                           \cup (IF withImages THEN {"images"} ELSE {})
      IN
      IF withCss /\ cssNotFound(cssPath)
      THEN [ok |-> FALSE, data |-> Undef,
            err |-> InvalidArgumentException("CSS file not found or not readable: ", <<cssPath>>)]
      ELSE IF withCss /\ ~cssContent.ok
      THEN [ok |-> FALSE, data |-> Undef, err |-> SystemError(cssContent.code, cssPath)]
      ELSE IF ~processed.ok
      THEN [ok |-> FALSE, data |-> Undef, err |-> processed.err]
      ELSE [ok |-> TRUE, data |-> Obj(Restrict(all, keys)), err |-> NoErr]

(***************************************************************************)
(* new URL(url) without a base (WHATWG URL parsing), on the pieces of the  *)
(* string.  Pieces are words of ASCII letters, the digit "1" and the       *)
(* punctuation ":" "/" "-" "." "+".                                        *)
(***************************************************************************)
AlphaPieces == {"https", "foo", "example", "com", "not", "a", "valid", "url"}

DigitPieces == {"1"}

SchemePieces == AlphaPieces \cup DigitPieces \cup {"-", ".", "+"}

\* The first index of s whose piece is in stop, Len(s) + 1 when there is none.
FirstIn(s, stop) ==
  IF \E i \in 1..Len(s) : s[i] \in stop
  THEN CHOOSE i \in 1..Len(s) : s[i] \in stop /\ \A j \in 1..(i - 1) : s[j] \notin stop
  ELSE Len(s) + 1

\* The first index of s whose piece is not in keep, Len(s) + 1 when there is none.
FirstNotIn(s, keep) ==
  IF \E i \in 1..Len(s) : s[i] \notin keep
  THEN CHOOSE i \in 1..Len(s) : s[i] \notin keep /\ \A j \in 1..(i - 1) : s[j] \in keep
  ELSE Len(s) + 1

AllDigits(s) == \A i \in 1..Len(s) : s[i] \in DigitPieces

\* Host parsing.  A special-scheme host that ends in a number is an IPv4
\* address: a single number of digits "1" must stay below 2^32 (at most ten
\* digits); the model's inputs contain no dotted numeric host.  Any other
\* host made of these pieces is a valid domain / opaque host.
HostParses(host, special) ==
  IF special /\ host # <<>> /\ AllDigits(LastSegment(host)) /\ LastSegment(host) # <<>>
  THEN AllDigits(host) /\ Len(host) <= 10
  ELSE TRUE

\* Authority, host and port states on the input that follows the slashes.
\* A port is digits only and at most 65535 (at most five digits "1").
AuthorityParses(rest, special) ==
  LET hostEnd == FirstIn(rest, {":", "/"})
      host == SubSeq(rest, 1, hostEnd - 1)
  IN
  IF hostEnd <= Len(rest) /\ rest[hostEnd] = ":"
  THEN LET after == SubSeq(rest, hostEnd + 1, Len(rest))
           port == SubSeq(after, 1, FirstIn(after, {"/"}) - 1)
       IN /\ host # <<>>
          /\ HostParses(host, special)
          /\ AllDigits(port)
          /\ Len(port) <= 5
  ELSE /\ special => host # <<>>
       /\ HostParses(host, special)

\* TRUE iff new URL(url) returns; FALSE iff it throws.
UrlParses(url) ==
  LET s == ToStr(url)
      k == FirstNotIn(s, SchemePieces)
      scheme == SubSeq(s, 1, k - 1)
      rest == SubSeq(s, k + 1, Len(s))
  IN
  /\ k <= Len(s)
  /\ s[k] = ":"
  /\ k > 1
  /\ s[1] \in AlphaPieces
  /\ IF scheme = <<"https">>
     THEN AuthorityParses(SubSeq(rest, FirstNotIn(rest, {"/"}), Len(rest)), TRUE)
     ELSE IF Len(rest) >= 2 /\ rest[1] = "/" /\ rest[2] = "/"
     THEN AuthorityParses(SubSeq(rest, 3, Len(rest)), FALSE)
     ELSE TRUE

(***************************************************************************)
(* Numbers and dates.                                                      *)
(***************************************************************************)
\* Decimal numerals: the value and the number of digits of a piece.
Numerals ==
  ("0" :> [value |-> 0, width |-> 1]) @@
  ("1" :> [value |-> 1, width |-> 1]) @@
  ("00" :> [value |-> 0, width |-> 2]) @@
  ("01" :> [value |-> 1, width |-> 2]) @@
  ("02" :> [value |-> 2, width |-> 2]) @@
  ("12" :> [value |-> 12, width |-> 2]) @@
  ("13" :> [value |-> 13, width |-> 2]) @@
  ("30" :> [value |-> 30, width |-> 2]) @@
  ("32" :> [value |-> 32, width |-> 2]) @@
  ("123" :> [value |-> 123, width |-> 3]) @@
  ("2024" :> [value |-> 2024, width |-> 4])

\* ToNumber.
ToNumber(v) ==
  CASE v.t = "num" -> v
    [] v.t = "null" -> Whole(0)
    [] v.t = "str" ->
         IF v.s = <<>> THEN Whole(0)
         ELSE IF Len(v.s) = 1 /\ v.s[1] \in DOMAIN Numerals
         THEN Whole(Numerals[v.s[1]].value)
         ELSE NaN
    [] OTHER -> NaN

\* Mutant: the comparison is strict, so 0 passes.
LeqZero_strict(v) == ToNumber(v).t = "num" /\ ToNumber(v).n < 0

\* The comparison v <= 0: false whenever ToNumber(v) is NaN.
LeqZero(v) == ToNumber(v).t = "num" /\ ToNumber(v).n <= 0

\* Days from 1970-01-01 to the civil date y-m-d (proleptic Gregorian),
\* d running past the end of the month into the next one as MakeDay does.
DaysFromCivil(y, m, d) ==
  LET yy == IF m <= 2 THEN y - 1 ELSE y
      era == yy \div 400
      yoe == yy - era * 400
      mp == IF m > 2 THEN m - 3 ELSE m + 9
      doy == (153 * mp + 2) \div 5 + d - 1
      doe == yoe * 365 + yoe \div 4 - yoe \div 100 + doy
  IN era * 146097 + doe - 719468

InvalidDate == [t |-> "date", valid |-> FALSE, day |-> 0, ms |-> 0]

DateValue(day, ms) == [t |-> "date", valid |-> TRUE, day |-> day, ms |-> ms]

IsNumeral(p, w) == p \in DOMAIN Numerals /\ Numerals[p].width = w

\* Date.parse of an ISO string YYYY-MM-DD or YYYY-MM-DDTHH:mm:ssZ.
IsoDate(s) ==
  LET dateOk == /\ Len(s) \in {5, 12}
                /\ IsNumeral(s[1], 4) /\ s[2] = "-"
                /\ IsNumeral(s[3], 2) /\ s[4] = "-"
                /\ IsNumeral(s[5], 2)
                /\ Numerals[s[3]].value \in 1..12
                /\ Numerals[s[5]].value \in 1..31
      timeOk == /\ s[6] = "T"
                /\ IsNumeral(s[7], 2) /\ s[8] = ":"
                /\ IsNumeral(s[9], 2) /\ s[10] = ":"
                /\ IsNumeral(s[11], 2) /\ s[12] = "Z"
                /\ Numerals[s[7]].value \in 0..23
                /\ Numerals[s[9]].value \in 0..59
                /\ Numerals[s[11]].value \in 0..59
      day == DaysFromCivil(Numerals[s[1]].value, Numerals[s[3]].value, Numerals[s[5]].value)
  IN
  IF ~dateOk THEN InvalidDate
  ELSE IF Len(s) = 5 THEN DateValue(day, 0)
  ELSE IF ~timeOk THEN InvalidDate
  ELSE DateValue(day, Numerals[s[7]].value * 3600000 + Numerals[s[9]].value * 60000
                        + Numerals[s[11]].value * 1000)

\* new Date(v): a string is parsed, any other value is converted to a number
\* of milliseconds.  The time value is kept as whole days since the epoch and
\* milliseconds within the day.  The strings of the model are ISO-shaped or
\* contain no digit; a string without a digit never parses.
NewDate(v) ==
  IF v.t = "str" THEN IsoDate(v.s)
  ELSE LET x == ToNumber(v)
           tv == IF x.n >= 0 THEN x.n \div x.d ELSE -((-x.n) \div x.d)
       IN
       IF x.t = "num"
       THEN DateValue(tv \div 86400000, tv % 86400000)
       ELSE InvalidDate

(***************************************************************************)
(* Pdf: the document handle.                                               *)
(***************************************************************************)
\* Mutant: the status field is not among the fields tested.
missingFields_noStatus(data) ==
  \/ ~Truthy(Get(data, "id"))
  \/ ~Truthy(Get(data, "name"))
  \/ ~Truthy(Get(data, "download_url"))
  \/ ~Truthy(Get(data, "created_at"))

\* The guard `!data.id || !data.name || !data.status || !data.download_url ||
\* !data.created_at` of fromArray.
missingFields(data) ==
  \/ ~Truthy(Get(data, "id"))
  \/ ~Truthy(Get(data, "name"))
  \/ ~Truthy(Get(data, "status"))
  \/ ~Truthy(Get(data, "download_url"))
  \/ ~Truthy(Get(data, "created_at"))

\* Mutant: the parsed date is not tested.
invalidCreatedAt_unchecked(createdAt) == FALSE

\* The guard `isNaN(createdAt.getTime())`.
invalidCreatedAt(createdAt) == ~createdAt.valid

\* Mutant: name and status are passed to the constructor in the wrong order.
newPdf_swapped(id, name, status, downloadUrl, createdAt, cl) ==
  [id |-> id, name |-> status, status |-> name, downloadUrl |-> downloadUrl,
   createdAt |-> createdAt, client |-> cl]

\* The Pdf constructor: the six private fields.
newPdf(id, name, status, downloadUrl, createdAt, cl) ==
  [id |-> id, name |-> name, status |-> status, downloadUrl |-> downloadUrl,
   createdAt |-> createdAt, client |-> cl]

\* Pdf.fromArray(data, client) for a data value that is not null/undefined.
\* new Date never throws for the values JSON can carry, so the catch clause
\* only ever sees the exception thrown in the try block and rethrows it.
fromArray(data) ==
  IF missingFields(data)
  THEN Rejected(InvalidArgumentException("Invalid PDF data structure", <<>>))
  ELSE
    LET createdAt == NewDate(Get(data, "created_at")) IN
    IF invalidCreatedAt(createdAt)
    THEN Rejected(InvalidArgumentException("Invalid created_at format: ",
                                           <<Get(data, "created_at")>>))
    ELSE Resolved(newPdf(ToNumber(Get(data, "id")),
                         Str(ToStr(Get(data, "name"))),
                         Str(ToStr(Get(data, "status"))),
                         Str(ToStr(Get(data, "download_url"))),
                         createdAt,
                         client))

\* The getters of a handle.
getId(pdf) == pdf.id

getName(pdf) == pdf.name

getStatus(pdf) == pdf.status

getDownloadUrl(pdf) == pdf.downloadUrl

getCreatedAt(pdf) == pdf.createdAt

(***************************************************************************)
(* HTTP responses delivered by fetch.  A response is its status line, its  *)
(* body text and what JSON.parse makes of that text (json.ok = FALSE when  *)
(* the text is not JSON, so that response.json() rejects).                 *)
(***************************************************************************)
Response(status, statusText, text, jsonOk, value) ==
  [status |-> status, statusText |-> Str(<<statusText>>), text |-> Str(text),
   json |-> [ok |-> jsonOk, value |-> value]]

\* Response.ok: the status is in the range 200-299.
ResponseOk(resp) == resp.status >= 200 /\ resp.status <= 299

PdfData(id, status, createdAt) ==
  Obj([id |-> id,
       name |-> Str(<<"test", ".", "pdf">>),
       status |-> Str(<<status>>),
       download_url |-> Str(BASE_URL \o <<"/", "pdfs", "/", "download", "/", "token">>),
       created_at |-> createdAt])

GoodDate == Str(<<"2024", "-", "01", "-", "01", "T", "12", ":", "00", ":", "00", "Z">>)

BadDate == Str(<<"invalid", "-", "date", "-", "format">>)

\* The bodies a reply may carry: the text with its JSON reading.
Bodies ==
  { [text |-> <<"Error message">>, ok |-> FALSE, value |-> Undef],
    [text |-> <<"{}">>, ok |-> TRUE, value |-> Obj(<<>>)],
    [text |-> <<"null">>, ok |-> TRUE, value |-> Null],
    [text |-> <<"1">>, ok |-> TRUE, value |-> Whole(1)],
    [text |-> <<"{\"data\":null}">>, ok |-> TRUE, value |-> Obj([data |-> Null])],
    [text |-> <<"{\"data\":0}">>, ok |-> TRUE, value |-> Obj([data |-> Whole(0)])],
    [text |-> <<"{\"data\":1}">>, ok |-> TRUE, value |-> Obj([data |-> Whole(1)])],
    [text |-> <<"{\"data\":{pending}}">>, ok |-> TRUE,
     value |-> Obj([data |-> PdfData(Whole(123), "pending", GoodDate)])],
    [text |-> <<"{\"data\":{completed}}">>, ok |-> TRUE,
     value |-> Obj([data |-> PdfData(Whole(123), "completed", GoodDate)])],
    [text |-> <<"{\"data\":{id:0}}">>, ok |-> TRUE,
     value |-> Obj([data |-> PdfData(Whole(0), "pending", GoodDate)])],
    [text |-> <<"{\"data\":{id only}}">>, ok |-> TRUE,
     value |-> Obj([data |-> Obj([id |-> Whole(123)])])],
    [text |-> <<"{\"data\":{bad date}}">>, ok |-> TRUE,
     value |-> Obj([data |-> PdfData(Whole(123), "completed", BadDate)])] }

StatusLines ==
  { [status |-> 200, statusText |-> "OK"],
    [status |-> 400, statusText |-> "Bad Request"],
    [status |-> 500, statusText |-> "Internal Server Error"] }

Responses ==
  { Response(l.status, l.statusText, b.text, b.ok, b.value) : l \in StatusLines, b \in Bodies }

\* Mutant: response.ok is not looked at, the body is decoded whatever the status.
makeRequestReply_ignoresStatus(resp) ==
  IF ~resp.json.ok
  THEN [ok |-> FALSE, value |-> Undef, err |-> Err("SyntaxError", "Unexpected token", <<>>)]
  ELSE [ok |-> TRUE, value |-> resp.json.value, err |-> NoErr]

\* #makeRequest after fetch resolves: the decoded JSON, or the error thrown.
makeRequestReply(resp) ==
  IF ~ResponseOk(resp)
  THEN [ok |-> FALSE, value |-> Undef,
        err |-> Err("Error", "API request failed: ",
                    <<Whole(resp.status), resp.statusText, resp.text>>)]
  ELSE IF ~resp.json.ok
  THEN [ok |-> FALSE, value |-> Undef, err |-> Err("SyntaxError", "Unexpected token", <<>>)]
  ELSE [ok |-> TRUE, value |-> resp.json.value, err |-> NoErr]

\* Mutant: a failed GET is swallowed, the body is decoded whatever the status.
makeGetRequestReply_ignoresStatus(resp) ==
  IF ~resp.json.ok
  THEN [ok |-> FALSE, value |-> Undef, err |-> Err("SyntaxError", "Unexpected token", <<>>)]
  ELSE [ok |-> TRUE, value |-> resp.json.value, err |-> NoErr]

\* #makeGetRequest after fetch resolves.
makeGetRequestReply(resp) ==
  IF ~ResponseOk(resp)
  THEN [ok |-> FALSE, value |-> Undef,
        err |-> Err("Error", "API request failed: ",
                    <<Whole(resp.status), resp.statusText, resp.text>>)]
  ELSE IF ~resp.json.ok
  THEN [ok |-> FALSE, value |-> Undef, err |-> Err("SyntaxError", "Unexpected token", <<>>)]
  ELSE [ok |-> TRUE, value |-> resp.json.value, err |-> NoErr]

\* Reading a property of null or undefined.
TypeError == Err("TypeError", "Cannot read properties of null (reading 'data')", <<>>)

\* generateFromHtml after #makeRequest settles.
generateFromHtmlReturn(reply) ==
  IF ~reply.ok THEN Rejected(reply.err)
  ELSE IF Nullish(reply.value) THEN Rejected(TypeError)
  ELSE IF ~Truthy(Get(reply.value, "data"))
  THEN Rejected(InvalidArgumentException("Invalid API response: missing data", <<>>))
  ELSE fromArray(Get(reply.value, "data"))

\* generateFromUrl after #makeRequest settles.
generateFromUrlReturn(reply) ==
  IF ~reply.ok THEN Rejected(reply.err)
  ELSE IF Nullish(reply.value) THEN Rejected(TypeError)
  ELSE IF ~Truthy(Get(reply.value, "data"))
  THEN Rejected(InvalidArgumentException("Invalid API response: missing data", <<>>))
  ELSE fromArray(Get(reply.value, "data"))

\* getPdf after #makeGetRequest settles.
getPdfReturn(reply) ==
  IF ~reply.ok THEN Rejected(reply.err)
  ELSE IF Nullish(reply.value) THEN Rejected(TypeError)
  ELSE IF ~Truthy(Get(reply.value, "data"))
  THEN Rejected(InvalidArgumentException("Invalid API response: missing data", <<>>))
  ELSE fromArray(Get(reply.value, "data"))

\* Mutant: the URL is posted without being parsed first.
generateFromUrlData_unchecked(url) ==
  [ok |-> TRUE, data |-> Obj([url |-> url]), err |-> NoErr]

\* generateFromUrl up to its first await.
generateFromUrlData(url) ==
  IF ~UrlParses(url)
  THEN [ok |-> FALSE, data |-> Undef,
        err |-> InvalidArgumentException("Invalid URL: ", <<url>>)]
  ELSE [ok |-> TRUE, data |-> Obj([url |-> url]), err |-> NoErr]

\* getPdf up to its first await: the endpoint `/pdfs/${id}` or the exception.
getPdfEndpoint(id) ==
  IF LeqZero(id)
  THEN [ok |-> FALSE, endpoint |-> <<>>,
        err |-> InvalidArgumentException("Invalid PDF ID: ", <<id>>)]
  ELSE [ok |-> TRUE, endpoint |-> <<"/", "pdfs", "/">> \o ToStr(id), err |-> NoErr]

(***************************************************************************)
(* Pdf: the methods of a handle.                                           *)
(***************************************************************************)
\* Mutant: the status is compared without regard to case.
isReady_caseInsensitive(pdf) == toLowerCase(pdf.status.s) = <<"completed">>

\* Pdf.isReady: this.#status === 'completed'.
isReady(pdf) == pdf.status = Str(<<"completed">>)

\* Mutant: the Authorization header is left out of the download request.
downloadPdfRequest_noAuth(cl, downloadUrl) ==
  [method |-> "GET", url |-> ToStr(downloadUrl), headers |-> <<>>, body |-> Undef]

\* The request GeneratePDFs.downloadPdf hands to fetch, cl being the client
\* the method is invoked on.
downloadPdfRequest(cl, downloadUrl) ==
  [method |-> "GET",
   url |-> ToStr(downloadUrl),
   headers |-> [Authorization |-> <<"Bearer", " ">> \o ToStr(cl.apiToken)],
   body |-> Undef]

\* Mutant: response.ok is not looked at, the body is returned whatever the status.
downloadPdfReply_ignoresStatus(resp) == Returned(Buffer(resp.bytes))

\* GeneratePDFs.downloadPdf after fetch resolves: the body as a Buffer, or
\* the error thrown.
downloadPdfReply(resp) ==
  IF ~ResponseOk(resp)
  THEN Rejected(Err("Error", "Failed to download PDF: ", <<resp.statusText>>))
  ELSE Returned(Buffer(resp.bytes))

\* Mutant: the download is started whatever the status.
downloadStart_unguarded(pdf) ==
  [ok |-> TRUE, request |-> downloadPdfRequest(pdf.client, pdf.downloadUrl), err |-> NoErr]

\* Pdf.download up to the await on downloadPdf: the request, or the exception.
downloadStart(pdf) ==
  IF ~isReady(pdf)
  THEN [ok |-> FALSE, request |-> Undef,
        err |-> RuntimeException("PDF is not ready yet. Current status: ", <<pdf.status>>)]
  ELSE [ok |-> TRUE, request |-> downloadPdfRequest(pdf.client, pdf.downloadUrl),
        err |-> NoErr]

\* The directory part of a path: the pieces before its last "/", <<>> when
\* it has none (the working directory).
RECURSIVE DirName(_)
DirName(s) ==
  IF s = <<>> THEN <<>>
  ELSE IF s[Len(s)] = "/" THEN SubSeq(s, 1, Len(s) - 1)
  ELSE DirName(SubSeq(s, 1, Len(s) - 1))

\* fs.writeFileSync(p, bytes): done, or the system error thrown.
writeFileSync(p) ==
  CASE p.s \in DOMAIN Files /\ Files[p.s].kind = "dir" -> [ok |-> FALSE, code |-> "EISDIR"]
    [] p.s \in DOMAIN Files /\ Files[p.s].kind = "noperm" -> [ok |-> FALSE, code |-> "EACCES"]
    [] DirName(p.s) # <<>> /\ DirName(p.s) \notin DOMAIN Files ->
         [ok |-> FALSE, code |-> "ENOENT"]
    [] OTHER -> [ok |-> TRUE, code |-> ""]

\* Mutant: a failed write is swallowed and true is returned.
downloadToFileReturn_swallows(filePath, content) ==
  IF content.kind = "error"
  THEN [result |-> content, wrote |-> <<>>]
  ELSE IF writeFileSync(filePath).ok
  THEN [result |-> Returned(Bool(TRUE)),
        wrote |-> <<[path |-> filePath, bytes |-> content.value.bytes]>>]
  ELSE [result |-> Returned(Bool(TRUE)), wrote |-> <<>>]

\* Pdf.downloadToFile after download() settles with content: the result and
\* the writes made.
downloadToFileReturn(filePath, content) ==
  IF content.kind = "error"
  THEN [result |-> content, wrote |-> <<>>]
  ELSE IF writeFileSync(filePath).ok
  THEN [result |-> Returned(Bool(TRUE)),
        wrote |-> <<[path |-> filePath, bytes |-> content.value.bytes]>>]
  ELSE [result |-> Rejected(RuntimeException("Failed to write PDF to file: ", <<filePath>>)),
        wrote |-> <<>>]

\* Mutant: refresh stores the fetched fields in the handle it is invoked on.
thisAfterRefresh_inPlace(this, fresh) ==
  IF fresh.kind = "pdf" THEN fresh ELSE this

\* Pdf.refresh assigns no field: the handle it is invoked on (held as the
\* result this) is what it was, whatever the fetched result fresh is.
thisAfterRefresh(this, fresh) == this

(***************************************************************************)
(* The inputs the callers pass.                                            *)
(***************************************************************************)
Tokens == {Str(<<"test", "-", "api", "-", "token">>), Str(<<"other", "-", "token">>)}

HtmlPaths == {Str(HtmlFile), Str(GoneFile), Str(AssetsDir), Str(LockedFile), Str(<<>>)}

CssPaths == {Null, Undef, Str(CssFile), Str(GoneFile), Str(AssetsDir), Str(<<>>)}

ImageEntries ==
  { Obj([name |-> Str(<<"logo">>), path |-> Str(LogoFile)]),
    Obj([name |-> Str(<<"raw">>), path |-> Str(RawFile),
         mimeType |-> Str(<<"image/x-custom">>)]),
    Obj([name |-> Str(<<>>), path |-> Str(LogoFile)]),
    Obj([name |-> Str(<<"nopath">>)]),
    Obj([name |-> Str(<<"gone">>), path |-> Str(GoneFile)]),
    Obj([name |-> Str(<<"dir">>), path |-> Str(AssetsDir)]) }

ImageLists == UNION { [1..n -> ImageEntries] : n \in 0..MaxImages }

\* Image entries that are accepted, for the resolution of mime_type: without
\* mimeType, with one, and with a null or empty one.
MimeImageEntries ==
  { Obj([name |-> Str(<<"img">>), path |-> Str(p)]) :
      p \in {LogoFile, PhotoFile, PicFile, AnimFile, WebpFile, IconFile, BinFile,
              RawFile, CtorFile, BareFile} }
  \cup { Obj([name |-> Str(<<"img">>), path |-> Str(p), mimeType |-> m]) :
           p \in {IconFile},
           m \in {Str(<<"image/x-custom">>), Str(<<>>), Null, Undef} }
  \cup { Obj([name |-> Str(<<"raw">>), path |-> Str(RawFile),
               mimeType |-> Str(<<"image/x-custom">>)]) }

MimeImageLists == UNION { [1..n -> MimeImageEntries] : n \in 0..MaxImages }

UrlPieces == {"https", "foo", ":", "/", "1"}

Urls ==
  { Str(s) : s \in UNION { [1..n -> UrlPieces] : n \in 0..MaxUrlLen } }
  \cup { Str(<<"https", ":", "/", "/", "example", ".", "com">>),
         Str(<<"not", "-", "a", "-", "valid", "-", "url">>),
         Undef }

Ids ==
  { Whole(n) : n \in (-MaxId)..MaxId }
  \cup { Num(2 * n + 1, 2) : n \in (-MaxId)..(MaxId - 1) }
  \cup { NaN }

\* The raw records handed to Pdf.fromArray: each field may be absent (Undef).
RawIds == Ids \cup {Undef, Whole(123), Str(<<"12">>)}

RawNames == {Undef, Str(<<>>), Str(<<"test", ".", "pdf">>)}

RawStatuses ==
  {Undef, Str(<<>>), Str(<<"pending">>), Str(<<"processing">>), Str(<<"completed">>),
   Str(<<"failed">>), Str(<<"Completed">>), Str(<<"unknown">>)}

DownloadUrl == Str(BASE_URL \o <<"/", "pdfs", "/", "download", "/", "token">>)

RawUrls == {Undef, DownloadUrl}

RawCreated ==
  {Undef, Str(<<>>), Whole(0), Whole(86400000), GoodDate, BadDate,
   Str(<<"2024", "-", "13", "-", "01">>)}

RawData(id, name, status, downloadUrl, createdAt) ==
  LET all == [id |-> id, name |-> name, status |-> status,
              download_url |-> downloadUrl, created_at |-> createdAt]
  IN Obj(Restrict(all, {k \in DOMAIN all : all[k] # Undef}))

RawRecords ==
  { RawData(id, name, status, downloadUrl, createdAt) :
      id \in RawIds, name \in RawNames, status \in RawStatuses,
      downloadUrl \in RawUrls, createdAt \in RawCreated }

\* The responses to a download: the status line and the bytes of the body.
DownloadResponses ==
  { [status |-> 200, statusText |-> Str(<<"OK">>), bytes |-> <<37, 80, 68, 70>>],
    [status |-> 200, statusText |-> Str(<<"OK">>), bytes |-> <<>>],
    [status |-> 404, statusText |-> Str(<<"Not Found">>), bytes |-> <<60>>],
    [status |-> 500, statusText |-> Str(<<"Internal Server Error">>), bytes |-> <<>>] }

\* The URLs client.downloadPdf is called with directly.
DownloadUrls ==
  {DownloadUrl, Str(<<"https", ":", "/", "/", "example", ".", "com", "/", "file", ".", "pdf">>)}

OutFile == <<"out", ".", "pdf">>

\* Where downloadToFile is asked to write: a new file, a new file in an
\* existing directory, a file in a directory that does not exist, a
\* directory, and a file without write permission.
OutPaths ==
  {Str(OutFile), Str(AssetsDir \o <<"/">> \o OutFile), Str(<<"nodir", "/">> \o OutFile),
   Str(AssetsDir), Str(LockedFile)}

(***************************************************************************)
(* Invocations.  call[c] is one invocation slot of the caller: idle, or an *)
(* operation suspended at its await on fetch (awaiting), or settled (done) *)
(* with its result.  sent is the sequence of requests the invocation has   *)
(* handed to fetch.                                                        *)
(***************************************************************************)
Calls == {"c1", "c2"}

\* this: the handle a method of Pdf is invoked on, holder: the slot whose
\* result that handle is.
NoArgs ==
  [htmlPath |-> Undef, cssPath |-> Undef, images |-> Undef, url |-> Undef, id |-> Undef,
   data |-> Undef, this |-> NoPdf, holder |-> "", filePath |-> Undef]

\* No response delivered (yet).
NoResponse == [status |-> 0]

\* wrote: the writes to the file system the invocation has made.
IdleCall ==
  [pc |-> "idle", op |-> "none", args |-> NoArgs, sent |-> <<>>, wrote |-> <<>>,
   response |-> NoResponse, result |-> NoResult]

Awaiting(op, args, request) ==
  [pc |-> "awaiting", op |-> op, args |-> args, sent |-> <<request>>, wrote |-> <<>>,
   response |-> NoResponse, result |-> NoResult]

Settled(op, args, sent, response, result) ==
  [pc |-> "done", op |-> op, args |-> args, sent |-> sent, wrote |-> <<>>,
   response |-> response, result |-> result]

Init ==
  /\ client \in { connect(tok) : tok \in Tokens }
  /\ call = [c \in Calls |-> IdleCall]

\* client.generateFromHtml(htmlPath, cssPath, images), up to the await on fetch.
GenerateFromHtml(c, htmlPath, cssPath, images) ==
  LET r == generateFromHtmlData(htmlPath, cssPath, images)
      args == [NoArgs EXCEPT !.htmlPath = htmlPath, !.cssPath = cssPath, !.images = images]
  IN
  /\ call[c].pc = "idle"
  /\ call' = [call EXCEPT ![c] =
       IF r.ok
       THEN Awaiting("generateFromHtml", args, makeRequest(GenerateEndpoint, r.data))
       ELSE Settled("generateFromHtml", args, <<>>, NoResponse, Rejected(r.err))]
  /\ UNCHANGED client

\* generateFromHtml resumed with the response to its request.
GenerateFromHtmlReply(c, resp) ==
  /\ call[c].pc = "awaiting"
  /\ call[c].op = "generateFromHtml"
  /\ call' = [call EXCEPT ![c] =
       Settled(@.op, @.args, @.sent, resp, generateFromHtmlReturn(makeRequestReply(resp)))]
  /\ UNCHANGED client

\* client.generateFromUrl(url), up to the await on fetch.
GenerateFromUrl(c, url) ==
  LET r == generateFromUrlData(url)
      args == [NoArgs EXCEPT !.url = url]
  IN
  /\ call[c].pc = "idle"
  /\ call' = [call EXCEPT ![c] =
       IF r.ok
       THEN Awaiting("generateFromUrl", args, makeRequest(GenerateEndpoint, r.data))
       ELSE Settled("generateFromUrl", args, <<>>, NoResponse, Rejected(r.err))]
  /\ UNCHANGED client

\* generateFromUrl resumed with the response to its request.
GenerateFromUrlReply(c, resp) ==
  /\ call[c].pc = "awaiting"
  /\ call[c].op = "generateFromUrl"
  /\ call' = [call EXCEPT ![c] =
       Settled(@.op, @.args, @.sent, resp, generateFromUrlReturn(makeRequestReply(resp)))]
  /\ UNCHANGED client

\* client.getPdf(id), up to the await on fetch.
GetPdf(c, id) ==
  LET r == getPdfEndpoint(id)
      args == [NoArgs EXCEPT !.id = id]
  IN
  /\ call[c].pc = "idle"
  /\ call' = [call EXCEPT ![c] =
       IF r.ok
       THEN Awaiting("getPdf", args, makeGetRequest(r.endpoint))
       ELSE Settled("getPdf", args, <<>>, NoResponse, Rejected(r.err))]
  /\ UNCHANGED client

\* getPdf resumed with the response to its request.
GetPdfReply(c, resp) ==
  /\ call[c].pc = "awaiting"
  /\ call[c].op = "getPdf"
  /\ call' = [call EXCEPT ![c] =
       Settled(@.op, @.args, @.sent, resp, getPdfReturn(makeGetRequestReply(resp)))]
  /\ UNCHANGED client

\* Pdf.fromArray(data, client) called directly.
FromArray(c, data) ==
  /\ call[c].pc = "idle"
  /\ call' = [call EXCEPT ![c] =
       Settled("fromArray", [NoArgs EXCEPT !.data = data], <<>>, NoResponse, fromArray(data))]
  /\ UNCHANGED client

\* Slot d holds a handle: an invocation that has resolved with one and whose
\* result the caller has kept.
Holds(d) == call[d].pc = "done" /\ call[d].result.kind = "pdf"

\* The arguments of a method invoked on the handle held in slot d.
OnHandle(d) == [NoArgs EXCEPT !.this = call[d].result.pdf, !.holder = d]

\* pdf.isReady() on the handle held in slot d.
IsReady(c, d) ==
  /\ call[c].pc = "idle"
  /\ Holds(d)
  /\ call' = [call EXCEPT ![c] =
       Settled("isReady", OnHandle(d), <<>>, NoResponse,
               Returned(Bool(isReady(call[d].result.pdf))))]
  /\ UNCHANGED client

\* pdf.download() on the handle held in slot d, up to the await on fetch.
Download(c, d) ==
  LET r == downloadStart(call[d].result.pdf) IN
  /\ call[c].pc = "idle"
  /\ Holds(d)
  /\ call' = [call EXCEPT ![c] =
       IF r.ok
       THEN Awaiting("download", OnHandle(d), r.request)
       ELSE Settled("download", OnHandle(d), <<>>, NoResponse, Rejected(r.err))]
  /\ UNCHANGED client

\* client.downloadPdf(downloadUrl) called directly, up to the await on fetch.
DownloadPdf(c, downloadUrl) ==
  /\ call[c].pc = "idle"
  /\ call' = [call EXCEPT ![c] =
       Awaiting("downloadPdf", [NoArgs EXCEPT !.url = downloadUrl],
                downloadPdfRequest(client, downloadUrl))]
  /\ UNCHANGED client

\* downloadPdf, called directly or by download, resumed with the response to
\* its request.
DownloadReply(c, resp) ==
  /\ call[c].pc = "awaiting"
  /\ call[c].op \in {"download", "downloadPdf"}
  /\ call' = [call EXCEPT ![c] =
       Settled(@.op, @.args, @.sent, resp, downloadPdfReply(resp))]
  /\ UNCHANGED client

\* pdf.downloadToFile(filePath) on the handle held in slot d, up to the
\* await on fetch inside download().
DownloadToFile(c, d, filePath) ==
  LET r == downloadStart(call[d].result.pdf)
      args == [OnHandle(d) EXCEPT !.filePath = filePath]
  IN
  /\ call[c].pc = "idle"
  /\ Holds(d)
  /\ call' = [call EXCEPT ![c] =
       IF r.ok
       THEN Awaiting("downloadToFile", args, r.request)
       ELSE Settled("downloadToFile", args, <<>>, NoResponse, Rejected(r.err))]
  /\ UNCHANGED client

\* downloadToFile resumed with the response to its request: download()
\* settles, then the file is written.
DownloadToFileReply(c, resp) ==
  LET r == downloadToFileReturn(call[c].args.filePath, downloadPdfReply(resp)) IN
  /\ call[c].pc = "awaiting"
  /\ call[c].op = "downloadToFile"
  /\ call' = [call EXCEPT ![c] =
       [Settled(@.op, @.args, @.sent, resp, r.result) EXCEPT !.wrote = r.wrote]]
  /\ UNCHANGED client

\* pdf.refresh() on the handle held in slot d: this.#client.getPdf(this.#id),
\* up to the await on fetch.
Refresh(c, d) ==
  LET r == getPdfEndpoint(getId(call[d].result.pdf)) IN
  /\ call[c].pc = "idle"
  /\ Holds(d)
  /\ call' = [call EXCEPT ![c] =
       IF r.ok
       THEN Awaiting("refresh", OnHandle(d), makeGetRequest(r.endpoint))
       ELSE Settled("refresh", OnHandle(d), <<>>, NoResponse, Rejected(r.err))]
  /\ UNCHANGED client

\* refresh resumed with the response to its request.
RefreshReply(c, resp) ==
  LET fresh == getPdfReturn(makeGetRequestReply(resp))
      d == call[c].args.holder
  IN
  /\ call[c].pc = "awaiting"
  /\ call[c].op = "refresh"
  /\ call' = [call EXCEPT
       ![c] = Settled(@.op, @.args, @.sent, resp, fresh),
       ![d].result = thisAfterRefresh(@, fresh)]
  /\ UNCHANGED client

\* The caller takes the settled result; the slot is free for the next call.
\* A handle is kept as long as a method invoked on it is in flight.
Return(c) ==
  /\ call[c].pc = "done"
  /\ \A d \in DOMAIN call : ~(call[d].pc = "awaiting" /\ call[d].args.holder = c)
  /\ call' = [call EXCEPT ![c] = IdleCall]
  /\ UNCHANGED client

\* The caller awaits each call before it makes the next one.
Sequential == \A d \in Calls : call[d].pc = "idle"

Next ==
  \/ \E c \in Calls :
       /\ Sequential
       /\ \E htmlPath \in HtmlPaths, cssPath \in CssPaths, images \in ImageLists :
            GenerateFromHtml(c, htmlPath, cssPath, Arr(images))
  \/ \E c \in Calls :
       /\ call[c].pc = "awaiting"
       /\ \E resp \in Responses : GenerateFromHtmlReply(c, resp)
  \/ \E c \in Calls :
       /\ Sequential
       /\ \E url \in Urls : GenerateFromUrl(c, url)
  \/ \E c \in Calls :
       /\ call[c].pc = "awaiting"
       /\ \E resp \in Responses : GenerateFromUrlReply(c, resp)
  \/ \E c \in Calls :
       /\ Sequential
       /\ \E id \in Ids : GetPdf(c, id)
  \/ \E c \in Calls :
       /\ call[c].pc = "awaiting"
       /\ \E resp \in Responses : GetPdfReply(c, resp)
  \/ \E c \in Calls :
       /\ Sequential
       /\ \E data \in RawRecords : FromArray(c, data)
  \/ \E c \in Calls :
       /\ Sequential
       /\ \E downloadUrl \in DownloadUrls : DownloadPdf(c, downloadUrl)
  \/ \E c \in Calls, d \in Calls : IsReady(c, d)
  \/ \E c \in Calls, d \in Calls : Download(c, d)
  \/ \E c \in Calls :
       /\ call[c].pc = "awaiting"
       /\ \E resp \in DownloadResponses : DownloadReply(c, resp)
  \/ \E c \in Calls, d \in Calls :
       /\ Holds(d)
       /\ \E filePath \in OutPaths : DownloadToFile(c, d, filePath)
  \/ \E c \in Calls :
       /\ call[c].pc = "awaiting"
       /\ \E resp \in DownloadResponses : DownloadToFileReply(c, resp)
  \/ \E c \in Calls, d \in Calls : Refresh(c, d)
  \/ \E c \in Calls :
       /\ call[c].pc = "awaiting"
       /\ \E resp \in Responses : RefreshReply(c, resp)
  \/ \E c \in Calls : Return(c)

Spec == Init /\ [][Next]_vars

\* generateFromHtml alone, on a readable HTML file and accepted images.
NextImages ==
  \/ \E c \in Calls :
       /\ Sequential
       /\ \E images \in MimeImageLists :
            GenerateFromHtml(c, Str(HtmlFile), Null, Arr(images))
  \/ \E c \in Calls :
       /\ call[c].pc = "awaiting"
       /\ \E resp \in Responses : GenerateFromHtmlReply(c, resp)
  \/ \E c \in Calls : Return(c)

SpecImages == Init /\ [][NextImages]_vars

(***************************************************************************)
(* Concurrent use of one client: the caller starts operations without      *)
(* awaiting the ones in flight, and the responses arrive in any order.     *)
(***************************************************************************)
ConcurrentCalls == {"c1", "c2", "c3"}

ConcurrentResponses ==
  { r \in Responses :
      \/ r.status = 200 /\ r.text.s \in {<<"{\"data\":{pending}}">>, <<"{}">>}
      \/ r.status = 500 /\ r.text.s = <<"Error message">> }

ConcurrentDownloadResponses ==
  { r \in DownloadResponses : r.bytes # <<>> }

InitConcurrent ==
  /\ client \in { connect(tok) : tok \in Tokens }
  /\ call = [c \in ConcurrentCalls |-> IdleCall]

NextConcurrent ==
  \/ \E c \in ConcurrentCalls :
       \E htmlPath \in {Str(HtmlFile), Str(GoneFile)},
          images \in {<<>>, <<Obj([name |-> Str(<<"logo">>), path |-> Str(LogoFile)])>>} :
         GenerateFromHtml(c, htmlPath, Null, Arr(images))
  \/ \E c \in ConcurrentCalls :
       /\ call[c].pc = "awaiting"
       /\ \E resp \in ConcurrentResponses : GenerateFromHtmlReply(c, resp)
  \/ \E c \in ConcurrentCalls :
       \E url \in {Str(<<"https", ":", "/", "/", "example", ".", "com">>),
                   Str(<<"not", "-", "a", "-", "valid", "-", "url">>)} :
         GenerateFromUrl(c, url)
  \/ \E c \in ConcurrentCalls :
       /\ call[c].pc = "awaiting"
       /\ \E resp \in ConcurrentResponses : GenerateFromUrlReply(c, resp)
  \/ \E c \in ConcurrentCalls :
       \E id \in {Whole(0), Whole(1)} : GetPdf(c, id)
  \/ \E c \in ConcurrentCalls :
       /\ call[c].pc = "awaiting"
       /\ \E resp \in ConcurrentResponses : GetPdfReply(c, resp)
  \/ \E c \in ConcurrentCalls : DownloadPdf(c, DownloadUrl)
  \/ \E c \in ConcurrentCalls :
       /\ call[c].pc = "awaiting"
       /\ \E resp \in ConcurrentDownloadResponses : DownloadReply(c, resp)
  \/ \E c \in ConcurrentCalls : Return(c)

SpecConcurrent == InitConcurrent /\ [][NextConcurrent]_vars

(***************************************************************************)
(* Properties.                                                             *)
(***************************************************************************)
\* p is a string naming no entry of the file system.
Nonexistent(p) == p.t = "str" /\ p.s \notin DOMAIN Files

\* p is a string naming a regular file that can be read.
Readable(p) == p.t = "str" /\ p.s \in DOMAIN Files /\ Files[p.s].kind = "file"

\* The invocation in slot c has failed before handing anything to fetch.
FailedLocally(c, e) ==
  /\ call[c].pc = "done"
  /\ call[c].result = Rejected(e)
  /\ call[c].sent = <<>>

\* C1: a generateFromHtml call whose htmlPath names a nonexistent file fails
\* with the invalid-argument error "HTML file not found or not readable:
\* {htmlPath}" and issues no request, whatever cssPath and images are.
C1_HtmlNotFound ==
  \A c \in Calls :
    (call[c].op = "generateFromHtml" /\ Nonexistent(call[c].args.htmlPath)) =>
      FailedLocally(c, InvalidArgumentException("HTML file not found or not readable: ",
                                                <<call[c].args.htmlPath>>))

C1_Witness ==
  \E c \in Calls :
    /\ call[c].pc = "done"
    /\ call[c].op = "generateFromHtml"
    /\ call[c].args.htmlPath = Str(GoneFile)
    /\ call[c].args.cssPath = Str(CssFile)
    /\ Len(call[c].args.images.a) = MaxImages
    /\ call[c].result.err.name = "InvalidArgumentException"

\* C2: with a readable htmlPath and a provided cssPath naming a nonexistent
\* file, generateFromHtml fails with the invalid-argument error "CSS file not
\* found or not readable: {cssPath}" and issues no request; with a null or
\* undefined cssPath a posted payload has no css field.
C2_CssNotFound ==
  \A c \in Calls :
    call[c].op = "generateFromHtml" =>
      /\ ( /\ Readable(call[c].args.htmlPath)
           /\ call[c].args.cssPath.t \notin {"null", "undef"}
           /\ Nonexistent(call[c].args.cssPath) ) =>
           FailedLocally(c, InvalidArgumentException("CSS file not found or not readable: ",
                                                     <<call[c].args.cssPath>>))
      /\ ( /\ call[c].args.cssPath.t \in {"null", "undef"}
           /\ call[c].sent # <<>> ) =>
           "css" \notin DOMAIN call[c].sent[1].body.f

C2_Witness ==
  \E c \in Calls :
    /\ call[c].pc = "done"
    /\ call[c].op = "generateFromHtml"
    /\ call[c].args.htmlPath = Str(HtmlFile)
    /\ call[c].args.cssPath = Str(GoneFile)
    /\ call[c].args.images.a # <<>>
    /\ call[c].result.err.text = "CSS file not found or not readable: "

\* C3 (as claimed): whenever htmlPath, or a provided cssPath, is not a
\* readable file (nonexistent, a directory, or without read permission),
\* generateFromHtml fails with an invalid-argument error and no other kind.
C3_UnreadableIsInvalidArgument ==
  \A c \in Calls :
    ( /\ call[c].op = "generateFromHtml"
      /\ \/ ~Readable(call[c].args.htmlPath)
         \/ /\ call[c].args.cssPath.t \notin {"null", "undef"}
            /\ ~Readable(call[c].args.cssPath) ) =>
      /\ call[c].pc = "done"
      /\ call[c].result.kind = "error"
      /\ call[c].result.err.name = "InvalidArgumentException"

\* An image entry the claim C4 excludes: name or path empty or missing, or
\* a path that names a nonexistent file.
ExcludedEntry(e) ==
  \/ ~Truthy(Get(e, "name"))
  \/ ~Truthy(Get(e, "path"))
  \/ ~existsSync(Get(e, "path"))

KeptEntry(e) == ~ExcludedEntry(e)

\* The images list of a posted payload, empty when the field is absent.
PayloadImages(body) ==
  IF "images" \in DOMAIN body.f THEN body.f.images.a ELSE <<>>

\* C4 (as claimed): with valid HTML/CSS, no image list aborts the call, and
\* the payload's images are one {name, content, mime_type} triple for each
\* entry that is not excluded, in input order.
C4_ImagesAreKeptEntries ==
  \A c \in Calls :
    ( /\ call[c].op = "generateFromHtml"
      /\ Readable(call[c].args.htmlPath)
      /\ call[c].args.cssPath.t \in {"null", "undef"} \/ Readable(call[c].args.cssPath) ) =>
      /\ call[c].sent # <<>>
      /\ LET kept == SelectSeq(call[c].args.images.a, KeptEntry)
             sentImages == PayloadImages(call[c].sent[1].body)
         IN /\ Len(sentImages) = Len(kept)
            /\ \A i \in 1..Len(kept) :
                 /\ DOMAIN sentImages[i].f = {"name", "content", "mime_type"}
                 /\ sentImages[i].f.name = Get(kept[i], "name")

\* C5 (as claimed): a posted payload that has an images field has at least
\* one entry in it.
C5_ImagesFieldNonEmpty ==
  \A c \in Calls :
    ( /\ call[c].op = "generateFromHtml"
      /\ call[c].sent # <<>>
      /\ "images" \in DOMAIN call[c].sent[1].body.f ) =>
      Len(call[c].sent[1].body.f.images.a) >= 1

\* C5 (amended): a posted payload has an images field exactly when the
\* supplied list is non-empty, and when every supplied entry is excluded the
\* field is the empty list.
C5_ImagesFieldIffSupplied ==
  \A c \in Calls :
    ( /\ call[c].op = "generateFromHtml"
      /\ call[c].sent # <<>> ) =>
      LET supplied == call[c].args.images.a
          body == call[c].sent[1].body
      IN /\ "images" \in DOMAIN body.f <=> Len(supplied) > 0
         /\ ( /\ Len(supplied) > 0
              /\ \A i \in 1..Len(supplied) : ExcludedEntry(supplied[i]) ) =>
              body.f.images = Arr(<<>>)

C5_Witness ==
  \E c \in Calls :
    /\ call[c].op = "generateFromHtml"
    /\ call[c].sent # <<>>
    /\ Len(call[c].args.images.a) = MaxImages
    /\ \A i \in 1..Len(call[c].args.images.a) : ExcludedEntry(call[c].args.images.a[i])
    /\ call[c].sent[1].body.f.images = Arr(<<>>)

ExampleUrl == Str(<<"https", ":", "/", "/", "example", ".", "com">>)

NotAValidUrl == Str(<<"not", "-", "a", "-", "valid", "-", "url">>)

\* C6: generateFromUrl with a url that does not parse fails with the
\* invalid-argument error "Invalid URL: {url}" and issues no request; with a
\* url that parses it issues exactly one POST to the generation endpoint
\* whose JSON payload is exactly {url: url}.  "not-a-valid-url" is rejected
\* and "https://example.com" is posted.
C6_UrlValidation ==
  \A c \in Calls :
    call[c].op = "generateFromUrl" =>
      /\ ~UrlParses(call[c].args.url) =>
           FailedLocally(c, InvalidArgumentException("Invalid URL: ", <<call[c].args.url>>))
      /\ UrlParses(call[c].args.url) =>
           /\ Len(call[c].sent) = 1
           /\ call[c].sent[1].method = "POST"
           /\ call[c].sent[1].url = BASE_URL \o <<"/", "pdfs", "/", "generate">>
           /\ call[c].sent[1].body = Obj([url |-> call[c].args.url])
      /\ call[c].args.url = NotAValidUrl => call[c].sent = <<>>
      /\ call[c].args.url = ExampleUrl => Len(call[c].sent) = 1

C6_Witness ==
  \E c \in Calls :
    /\ call[c].pc = "done"
    /\ call[c].op = "generateFromUrl"
    /\ call[c].args.url = NotAValidUrl
    /\ call[c].result.err.text = "Invalid URL: "
    /\ call[c].sent = <<>>

\* C7: getPdf(id) with a number id <= 0 fails with the invalid-argument error
\* "Invalid PDF ID: {id}" and issues no request.
C7_NonPositiveIdRejected ==
  \A c \in Calls :
    ( /\ call[c].op = "getPdf"
      /\ call[c].args.id.t = "num"
      /\ call[c].args.id.n <= 0 ) =>
      FailedLocally(c, InvalidArgumentException("Invalid PDF ID: ", <<call[c].args.id>>))

C7_Witness ==
  \E c \in Calls :
    /\ call[c].pc = "done"
    /\ call[c].op = "getPdf"
    /\ call[c].args.id = Whole(0)
    /\ call[c].result.err.name = "InvalidArgumentException"
    /\ call[c].sent = <<>>

\* id is a positive integer.
PositiveInteger(id) == id.t = "num" /\ id.n % id.d = 0 /\ id.n > 0

\* C8 (as claimed): getPdf issues its GET only for a positive integer id; for
\* any other id (zero, negative, fractional, not-a-number) it fails with the
\* invalid-argument error "Invalid PDF ID: {id}" without a request.
C8_OnlyPositiveIntegerIds ==
  \A c \in Calls :
    call[c].op = "getPdf" =>
      /\ call[c].sent # <<>> => PositiveInteger(call[c].args.id)
      /\ ~PositiveInteger(call[c].args.id) =>
           FailedLocally(c, InvalidArgumentException("Invalid PDF ID: ", <<call[c].args.id>>))

\* The invocation in slot c has settled on a response.
Replied(c) == call[c].pc = "done" /\ call[c].sent # <<>>

\* C9: for generateFromHtml, generateFromUrl and getPdf, a response with a
\* non-success status makes the operation fail with a generic Error carrying
\* the status code, the status text and the body text; it is neither an
\* invalid-argument nor a runtime error and no handle is produced.
C9_TransportError ==
  \A c \in Calls :
    ( /\ Replied(c)
      /\ call[c].op \in {"generateFromHtml", "generateFromUrl", "getPdf"}
      /\ call[c].response.status \notin 200..299 ) =>
      /\ call[c].result.kind = "error"
      /\ call[c].result.pdf = NoPdf
      /\ call[c].result.err.name = "Error"
      /\ call[c].result.err.name \notin {"InvalidArgumentException", "RuntimeException"}
      /\ call[c].result.err.args =
           <<Whole(call[c].response.status), call[c].response.statusText, call[c].response.text>>

C9_Witness ==
  \E c \in Calls :
    /\ Replied(c)
    /\ call[c].op = "generateFromHtml"
    /\ call[c].response.status = 400
    /\ call[c].response.json.ok
    /\ call[c].result.err.args =
         <<Whole(400), Str(<<"Bad Request">>), call[c].response.text>>

\* The decoded body holds no data object in one of the ways C10 lists: the
\* body is not an object, the data key is absent, or data is falsy.
MissingData(value) ==
  \/ value.t # "obj"
  \/ "data" \notin DOMAIN value.f
  \/ ~Truthy(value.f.data)

\* C10 (as claimed): for the three operations, a success-status response
\* whose JSON body holds no data object makes the operation fail with the
\* invalid-argument error "Invalid API response: missing data".
C10_MissingDataRejected ==
  \A c \in Calls :
    ( /\ Replied(c)
      /\ call[c].op \in {"generateFromHtml", "generateFromUrl", "getPdf"}
      /\ call[c].response.status \in 200..299
      /\ call[c].response.json.ok
      /\ MissingData(call[c].response.json.value) ) =>
      call[c].result =
        Rejected(InvalidArgumentException("Invalid API response: missing data", <<>>))

\* The five fields a raw record must carry.
RequiredFields == {"id", "name", "status", "download_url", "created_at"}

\* data.k is absent or falsy: undefined, null, NaN, 0 or the empty string.
AbsentOrFalsy(data, k) ==
  \/ k \notin DOMAIN data.f
  \/ data.f[k] \in {Undef, Null, NaN, Whole(0), Str(<<>>)}

AllRequiredTruthy(data) == \A k \in RequiredFields : ~AbsentOrFalsy(data, k)

\* C11: Pdf.fromArray fails with the invalid-argument error "Invalid PDF data
\* structure" for every raw record in which at least one of id, name, status,
\* download_url, created_at is absent or falsy, whatever the other fields
\* hold: the check comes before the created_at format check.
C11_MissingFieldRejected ==
  \A c \in Calls :
    ( /\ call[c].op = "fromArray"
      /\ \E k \in RequiredFields : AbsentOrFalsy(call[c].args.data, k) ) =>
      /\ call[c].pc = "done"
      /\ call[c].result =
           Rejected(InvalidArgumentException("Invalid PDF data structure", <<>>))

C11_Witness ==
  \E c \in Calls :
    /\ call[c].pc = "done"
    /\ call[c].op = "fromArray"
    /\ DOMAIN call[c].args.data.f = RequiredFields \ {"status"}
    /\ call[c].args.data.f.created_at = BadDate
    /\ call[c].result.err.text = "Invalid PDF data structure"

\* The value new Date() is given reads as a date.
Parseable(createdAt) == NewDate(createdAt).valid

\* C12 (as claimed): for every raw record with the five required fields
\* truthy and a parseable created_at, fromArray succeeds and getId, getName,
\* getStatus and getDownloadUrl return exactly the record's id, name, status
\* and download_url.
C12_RoundTrip ==
  \A c \in Calls :
    ( /\ call[c].op = "fromArray"
      /\ AllRequiredTruthy(call[c].args.data)
      /\ Parseable(call[c].args.data.f.created_at) ) =>
      /\ call[c].result.kind = "pdf"
      /\ getId(call[c].result.pdf) = call[c].args.data.f.id
      /\ getName(call[c].result.pdf) = call[c].args.data.f.name
      /\ getStatus(call[c].result.pdf) = call[c].args.data.f.status
      /\ getDownloadUrl(call[c].result.pdf) = call[c].args.data.f.download_url

\* C12 (amended): for every such record fromArray succeeds and the getters
\* return Number(id), String(name), String(status) and String(download_url);
\* these are the record's own values when id is a number and the other three
\* are strings, and any status string is accepted.
C12_RoundTripCoerced ==
  \A c \in Calls :
    ( /\ call[c].op = "fromArray"
      /\ AllRequiredTruthy(call[c].args.data)
      /\ Parseable(call[c].args.data.f.created_at) ) =>
      LET data == call[c].args.data.f
          pdf == call[c].result.pdf
      IN /\ call[c].result.kind = "pdf"
         /\ getId(pdf) = ToNumber(data.id)
         /\ getName(pdf) = Str(ToStr(data.name))
         /\ getStatus(pdf) = Str(ToStr(data.status))
         /\ getDownloadUrl(pdf) = Str(ToStr(data.download_url))
         /\ data.id.t = "num" => getId(pdf) = data.id
         /\ data.id = Str(<<"12">>) => getId(pdf) = Whole(12)
         /\ data.name.t = "str" => getName(pdf) = data.name
         /\ data.status.t = "str" => getStatus(pdf) = data.status
         /\ data.download_url.t = "str" => getDownloadUrl(pdf) = data.download_url

C12_Witness ==
  \E c \in Calls :
    /\ call[c].pc = "done"
    /\ call[c].op = "fromArray"
    /\ AllRequiredTruthy(call[c].args.data)
    /\ call[c].args.data.f.id = Str(<<"12">>)
    /\ call[c].args.data.f.status = Str(<<"unknown">>)
    /\ call[c].result.kind = "pdf"
    /\ getId(call[c].result.pdf) = Whole(12)
    /\ getStatus(call[c].result.pdf) = Str(<<"unknown">>)

\* C13: isReady() is true exactly when the handle's status is "completed",
\* compared case-sensitively: false for "pending", "processing", "failed" and
\* any other string.
C13_ReadyIffCompleted ==
  \A c \in Calls :
    call[c].op = "isReady" =>
      /\ call[c].pc = "done"
      /\ call[c].result.kind = "value"
      /\ call[c].result.value \in {Bool(TRUE), Bool(FALSE)}
      /\ call[c].result.value = Bool(TRUE) <=>
           call[c].args.this.status.s = <<"completed">>
      /\ call[c].args.this.status.s \in
           {<<"pending">>, <<"processing">>, <<"failed">>, <<"Completed">>, <<"unknown">>} =>
           call[c].result.value = Bool(FALSE)

C13_Witness ==
  \E c \in Calls :
    /\ call[c].pc = "done"
    /\ call[c].op = "isReady"
    /\ call[c].args.this.status = Str(<<"Completed">>)
    /\ call[c].result.value = Bool(FALSE)

\* C20: for every raw record with the five required fields truthy and a
\* created_at that does not parse as a date, fromArray fails with the one
\* invalid-argument error "Invalid created_at format: {raw created_at}" and
\* produces no handle.
C20_BadCreatedAtRejected ==
  \A c \in Calls :
    ( /\ call[c].op = "fromArray"
      /\ AllRequiredTruthy(call[c].args.data)
      /\ ~Parseable(call[c].args.data.f.created_at) ) =>
      /\ call[c].pc = "done"
      /\ call[c].result.kind = "error"
      /\ call[c].result.pdf = NoPdf
      /\ call[c].result.err =
           InvalidArgumentException("Invalid created_at format: ",
                                    <<call[c].args.data.f.created_at>>)

C20_Witness ==
  \E c \in Calls :
    /\ call[c].pc = "done"
    /\ call[c].op = "fromArray"
    /\ AllRequiredTruthy(call[c].args.data)
    /\ call[c].args.data.f.created_at = BadDate
    /\ call[c].result.err.text = "Invalid created_at format: "
    /\ call[c].result.err.args = <<BadDate>>

\* The methods invoked on a handle.
HandleOps == {"isReady", "download", "downloadToFile", "refresh"}

\* The handle the invocation in slot c is on is not ready.
NotReady(c) == call[c].args.this.status # Str(<<"completed">>)

\* C14: on a handle whose status is not "completed", download() and
\* downloadToFile() fail with the runtime error "PDF is not ready yet. Current
\* status: {status}"; no request is issued and no file is written.
C14_NotReadyRejected ==
  \A c \in Calls :
    ( /\ call[c].op \in {"download", "downloadToFile"}
      /\ NotReady(c) ) =>
      /\ call[c].pc = "done"
      /\ call[c].result =
           Rejected(RuntimeException("PDF is not ready yet. Current status: ",
                                     <<call[c].args.this.status>>))
      /\ call[c].sent = <<>>
      /\ call[c].wrote = <<>>

C14_Witness ==
  \E c \in Calls :
    /\ call[c].pc = "done"
    /\ call[c].op = "downloadToFile"
    /\ call[c].args.this.status = Str(<<"pending">>)
    /\ call[c].args.filePath = Str(OutFile)
    /\ call[c].result.err.name = "RuntimeException"
    /\ call[c].result.err.args = <<Str(<<"pending">>)>>

Unwritable == {Str(AssetsDir), Str(LockedFile), Str(<<"nodir", "/">> \o OutFile)}

C17_RefreshFetches ==
  \A c \in Calls :
    /\ ( /\ call[c].pc = "awaiting"
         /\ call[c].op \in HandleOps ) =>
         /\ Holds(call[c].args.holder)
         /\ call[call[c].args.holder].result.pdf = call[c].args.this
    /\ ( /\ call[c].op = "refresh"
         /\ call[c].sent # <<>> ) =>
         /\ Len(call[c].sent) = 1
         /\ call[c].sent[1].method = "GET"
         /\ call[c].sent[1].url =
              BASE_URL \o <<"/", "pdfs", "/">> \o ToStr(getId(call[c].args.this))
    /\ ( /\ call[c].op = "refresh"
         /\ call[c].result.kind = "pdf" ) =>
         getStatus(call[c].result.pdf) =
           Get(Get(call[c].response.json.value, "data"), "status")

\* A handle that is held is what it was after every step: no method started
\* or resumed changes its fields.
C17_HandleKept ==
  \A d \in Calls :
    (Holds(d) /\ call'[d].pc = "done") => call'[d].result = call[d].result

\* C17: a handle is immutable: after any sequence of isReady, download,
\* downloadToFile and refresh calls, failed or not, its id, name, status,
\* downloadUrl and createdAt are unchanged; refresh() fetches GET /pdfs/{this
\* id} and returns another handle, so a "pending" handle still reports
\* "pending" after a refresh that returned "completed".
C17_Immutable == [](C17_RefreshFetches) /\ [][C17_HandleKept]_vars

C17_Witness ==
  \E c \in Calls :
    /\ call[c].pc = "done"
    /\ call[c].op = "refresh"
    /\ call[c].result.kind = "pdf"
    /\ getStatus(call[c].result.pdf) = Str(<<"completed">>)
    /\ getStatus(call[c].args.this) = Str(<<"pending">>)
    /\ Holds(call[c].args.holder)
    /\ getStatus(call[call[c].args.holder].result.pdf) = Str(<<"pending">>)

\* s starts with the pieces of p.
StartsWith(s, p) == Len(s) >= Len(p) /\ SubSeq(s, 1, Len(p)) = p

\* C18: every request issued (generation POST, retrieval GET, download GET)
\* carries Authorization: Bearer {token} with the token given to connect;
\* generation and retrieval go to https://api.generatepdfs.com, and a POST
\* declares Content-Type application/json.
C18_Authenticated ==
  \A c \in Calls :
    \A i \in 1..Len(call[c].sent) :
      LET req == call[c].sent[i] IN
      /\ "Authorization" \in DOMAIN req.headers
      /\ req.headers.Authorization = <<"Bearer", " ">> \o client.apiToken.s
      /\ call[c].op \in {"generateFromHtml", "generateFromUrl"} =>
           /\ req.method = "POST"
           /\ req.url = <<"https", ":", "/", "/", "api", ".", "generatepdfs", ".", "com",
                          "/", "pdfs", "/", "generate">>
           /\ req.headers.ContentType = "application/json"
      /\ call[c].op \in {"getPdf", "refresh"} =>
           /\ req.method = "GET"
           /\ StartsWith(req.url, <<"https", ":", "/", "/", "api", ".", "generatepdfs", ".",
                                    "com", "/", "pdfs", "/">>)
      /\ call[c].op \in {"download", "downloadToFile"} => req.method = "GET"

C18_Witness ==
  \E c \in Calls, d \in Calls :
    /\ call[c].op = "downloadToFile"
    /\ call[c].pc = "awaiting"
    /\ call[d].op = "generateFromUrl"
    /\ call[d].sent # <<>>
    /\ client.apiToken = Str(<<"other", "-", "token">>)
    /\ call[c].sent[1].headers.Authorization = <<"Bearer", " ", "other", "-", "token">>
    /\ call[d].sent[1].headers.Authorization = <<"Bearer", " ", "other", "-", "token">>

\* C19 (as claimed): every handle that exists has an id that is a positive
\* integer, and refresh() on a handle always passes getPdf's id check and
\* issues its request.
C19_HandleIdsPositive ==
  \A c \in Calls :
    /\ call[c].result.kind = "pdf" => PositiveInteger(getId(call[c].result.pdf))
    /\ call[c].op = "refresh" => call[c].sent # <<>>

\* An image entry with a name and the path of a file that can be read.
ReadableEntry(e) ==
  /\ Truthy(Get(e, "name"))
  /\ Truthy(Get(e, "path"))
  /\ Readable(Get(e, "path"))

\* An image entry whose name and path are non-empty and whose path cannot be
\* read: it does not exist, is a directory, or has no read permission.
UnreadableEntry(e) ==
  /\ Truthy(Get(e, "name"))
  /\ Truthy(Get(e, "path"))
  /\ ~Readable(Get(e, "path"))

\* C21 (as claimed): an image entry with a non-empty name and path whose path
\* is unreadable (also one that exists but cannot be read) is skipped
\* silently: with valid HTML/CSS, generateFromHtml does not fail because of
\* it and posts the request with the other, readable images.
C21_UnreadableImageSkipped ==
  \A c \in Calls :
    ( /\ call[c].op = "generateFromHtml"
      /\ Readable(call[c].args.htmlPath)
      /\ call[c].args.cssPath.t \in {"null", "undef"} \/ Readable(call[c].args.cssPath)
      /\ \E i \in 1..Len(call[c].args.images.a) : UnreadableEntry(call[c].args.images.a[i]) ) =>
      /\ Len(call[c].sent) = 1
      /\ LET valid == SelectSeq(call[c].args.images.a, ReadableEntry)
             sentImages == PayloadImages(call[c].sent[1].body)
         IN /\ Len(sentImages) = Len(valid)
            /\ \A i \in 1..Len(valid) : sentImages[i].f.name = Get(valid[i], "name")

\* The entry carries a mimeType override: the property is neither absent,
\* undefined nor null.
HasOverride(e) == Get(e, "mimeType").t \notin {"undef", "null"}

\* The MIME type the table of the claim gives to a path: by the extension
\* after the last ".", whatever its case, the generic binary type for any
\* other extension and for a path without extension.
TableMime(path) ==
  LET ext == toLowerCase(LastSegment(path)) IN
  CASE ~(\E i \in 1..Len(path) : path[i] = ".") -> <<"application/octet-stream">>
    [] ext \in {<<"jpg">>, <<"jpeg">>} -> <<"image/jpeg">>
    [] ext = <<"png">> -> <<"image/png">>
    [] ext = <<"gif">> -> <<"image/gif">>
    [] ext = <<"webp">> -> <<"image/webp">>
    [] ext = <<"svg">> -> <<"image/svg+xml">>
    [] OTHER -> <<"application/octet-stream">>

\* C22 (as claimed): each image of a posted payload has a mime_type, which is
\* the entry's override when it has one, and otherwise the type the fixed
\* table gives to the extension of its path, case-insensitively, or
\* application/octet-stream for any other extension or none.
C22_MimeTypeResolved ==
  \A c \in Calls :
    ( /\ call[c].op = "generateFromHtml"
      /\ call[c].sent # <<>> ) =>
      LET kept == SelectSeq(call[c].args.images.a, ReadableEntry)
          sentImages == PayloadImages(call[c].sent[1].body)
      IN /\ Len(sentImages) = Len(kept)
         /\ \A i \in 1..Len(kept) :
              /\ "mime_type" \in DOMAIN sentImages[i].f
              /\ sentImages[i].f.mime_type =
                   IF HasOverride(kept[i]) THEN Get(kept[i], "mimeType")
                   ELSE Str(TableMime(Get(kept[i], "path").s))

\* The operations that reach the network.
NetOps ==
  {"generateFromHtml", "generateFromUrl", "getPdf", "downloadPdf", "download",
   "downloadToFile", "refresh"}

\* Of an invocation of an operation that reaches the network: it has issued
\* at most one request, exactly one unless it failed locally; a non-success
\* status or an undecodable body of an API response is an error delivered
\* to the caller.
C23_AtMostOneRequest ==
  \A c \in Calls :
    call[c].op \in NetOps =>
      /\ Len(call[c].sent) <= 1
      /\ call[c].pc = "awaiting" => Len(call[c].sent) = 1
      /\ (call[c].pc = "done" /\ call[c].sent = <<>>) =>
           /\ call[c].result.kind = "error"
           /\ call[c].response = NoResponse
      /\ (call[c].pc = "done" /\ call[c].result.kind # "error") => Len(call[c].sent) = 1
      /\ ( /\ call[c].pc = "done"
           /\ call[c].sent # <<>>
           /\ call[c].response.status \notin 200..299 ) =>
           /\ call[c].result.kind = "error"
           /\ call[c].result.err.name = "Error"
      /\ ( /\ call[c].pc = "done"
           /\ call[c].sent # <<>>
           /\ call[c].op \in {"generateFromHtml", "generateFromUrl", "getPdf", "refresh"}
           /\ ~call[c].response.json.ok ) =>
           call[c].result.kind = "error"

\* One response settles an invocation: its request is not issued again, and
\* once settled it does nothing more until the caller takes the result.
C23_NoRetry ==
  \A c \in Calls :
    /\ (call[c].sent # <<>> /\ call'[c].pc # "idle") => call'[c].sent = call[c].sent
    /\ (call[c].pc = "awaiting" /\ call'[c] # call[c]) => call'[c].pc = "done"
    /\ call[c].pc = "done" => call'[c] \in {call[c], IdleCall}

\* C23: no retry and no swallowing: every invocation of generateFromHtml,
\* generateFromUrl, getPdf, downloadPdf, download, downloadToFile or refresh
\* issues at most one request (exactly one when its local validation passes,
\* none when it fails), and every failure ends the invocation with an error
\* delivered to the caller.
C23_NoRetryNoSwallow == [](C23_AtMostOneRequest) /\ [][C23_NoRetry]_vars

C23_Witness ==
  \E c \in Calls :
    /\ call[c].pc = "done"
    /\ call[c].op = "refresh"
    /\ Len(call[c].sent) = 1
    /\ call[c].response.status = 500
    /\ call[c].response.json.ok
    /\ Truthy(Get(call[c].response.json.value, "data"))
    /\ call[c].result.kind = "error"
    /\ call[c].result.err.text = "API request failed: "

\* The operations of the client.
ClientOps == {"generateFromHtml", "generateFromUrl", "getPdf", "downloadPdf"}

\* Two invocations of the same operation with the same arguments have handed
\* the same request to fetch, and with the same response they have settled
\* with the same result, whatever else was in flight when each of them
\* started and resumed.
C24_SameInputsSameOutcome ==
  \A c \in DOMAIN call, d \in DOMAIN call :
    ( /\ call[c].op \in ClientOps
      /\ call[c].op = call[d].op
      /\ call[c].args = call[d].args ) =>
      /\ call[c].sent = call[d].sent
      /\ ( /\ call[c].pc = "done"
           /\ call[d].pc = "done"
           /\ call[c].response = call[d].response ) =>
           call[c].result = call[d].result

\* A step of one invocation leaves the client's token and base URL, the other
\* invocations and every existing handle as they were.
C24_OthersUntouched ==
  /\ client' = client
  /\ \A c \in DOMAIN call, d \in DOMAIN call :
       (c # d /\ call'[c] # call[c]) => call'[d] = call[d]
  /\ \A d \in DOMAIN call :
       (Holds(d) /\ call'[d].pc = "done") => call'[d].result.pdf = call[d].result.pdf

\* C24: concurrent invocations on one client are independent: under every
\* interleaving of operations in flight on the same client, the result or
\* error of each is determined by its own arguments and the response to its
\* own request, and no invocation changes the client's token or base URL or
\* the fields of an existing handle.
C24_Independent == [](C24_SameInputsSameOutcome) /\ [][C24_OthersUntouched]_vars

C24_Witness ==
  \E c \in DOMAIN call, d \in DOMAIN call, e \in DOMAIN call :
    /\ call[c].pc = "awaiting"
    /\ call[c].op = "getPdf"
    /\ call[d].pc = "awaiting"
    /\ call[d].op = "generateFromHtml"
    /\ call[e].pc = "done"
    /\ call[e].op = "getPdf"
    /\ call[e].args = call[c].args
    /\ call[e].sent = call[c].sent
    /\ Holds(e)

====
